---- MODULE Spec2Model ----
(***************************************************************************)
(* Proof-of-SAT: the clause catalogue (all_possible_clauses), the random   *)
(* sampler (random_sat), the MAX-SAT solvers (max_sat_solver,              *)
(* randomized_approximate_sat, brute_force_approximate_sat) and the        *)
(* digest decoder (solution_to_sat), each modelled as the loop the source  *)
(* runs.  One call of one function is one behaviour: Init draws the        *)
(* function and its arguments, the actions are the iterations of its       *)
(* loops.                                                                  *)
(***************************************************************************)
EXTENDS Integers, Sequences, FiniteSets

(* ------------------------------ bounds -------------------------------- *)

\* largest num_variables_per_instance for which the catalogue is built
BuildMaxN == 5
\* largest num_variables_per_instance of the catalogues handed to random_sat
SampleMaxN == 3
\* largest num_clauses asked of random_sat
MaxCount == 2
\* length of the digest bit string (256 in the source, line 85, scaled down)
DigestLen == 12
\* largest num_variables_per_instance of the catalogues handed to the decoder
DecodeMaxN == 3
\* largest num_variables_per_instance of the instances handed to
\* max_sat_solver and brute_force_approximate_sat
SolveMaxN == 3
\* largest number of clauses of an instance handed to a solver
MaxClauses == 2
\* the attempts a randomized solver is followed for (the source sets no limit)
MaxAttempts == 2
\* largest number of variables of the instances decoded by dictionary_to_sat
ApproxMaxN == 1

(* ------------------------- program constants -------------------------- *)

\* assert num_variables_per_clause >= 3
MinK == 3

VARIABLES
    op,                          \* the function being run
    pc,                          \* the position in it
    num_variables_per_clause,    \* k
    num_variables_per_instance,  \* n
    catalogue,                   \* the list all_possible_clauses
    num_bits_required,
    combination_index,           \* position in positive_or_negative (build)
    num_clauses,                 \* random_sat's count
    sat_instance,                \* random_sat's result
    drawn,                       \* random_sat's last random.randint result
    digest_in_binary,
    new_clauses,
    current_binary_substring,
    bit_index,
    location_of_clause,
    clauses,                     \* the instance handed to a solver
    randomized,                  \* max_sat_solver's flag
    assignment,
    num_assignment_attempts,
    num_clauses_satisfied,
    solution_dict,
    candidate_solution,
    candidate_clause,
    clause_index,                \* position of `for clause in clauses`
    bitstring_index,             \* position of `for bitstring in product`
    num_attempts

argVars == <<num_variables_per_clause, num_variables_per_instance>>
buildVars == <<combination_index>>
sampleVars == <<num_clauses, sat_instance, drawn>>
decodeVars == <<digest_in_binary, new_clauses, current_binary_substring,
                bit_index, location_of_clause>>
solveVars == <<clauses, randomized, assignment, num_assignment_attempts,
               num_clauses_satisfied>>
approxVars == <<solution_dict, candidate_solution, candidate_clause,
                clause_index, bitstring_index, num_attempts>>
vars == <<op, pc, argVars, catalogue, num_bits_required, buildVars,
          sampleVars, decodeVars, solveVars, approxVars>>

(* ------------------------------ helpers ------------------------------- *)

Range(s) == {s[i] : i \in 1..Len(s)}

Abs(x) == IF x < 0 THEN -x ELSE x

\* a faulty variant of product_element: the tuple counts with its first position as
\* the least significant bit
product_element_reversed(i, n) == [j \in 1..n |-> (i \div (2 ^ (j - 1))) % 2]

\* itertools.product(range(2), repeat=n)[i]: the n-bit binary numeral of i,
\* most significant bit first
product_element(i, n) == [j \in 1..n |-> (i \div (2 ^ (n - j))) % 2]

\* lines 22-27: the signed literals of one sign pattern
literals_of(combination) ==
    [v \in 1..Len(combination) |-> IF combination[v] = 1 THEN v ELSE -v]

\* itertools.combinations(s, r): the r-subsequences of s, in lexicographic
\* order of their positions
RECURSIVE combinations(_, _)
combinations(s, r) ==
    IF r = 0 THEN << <<>> >>
    ELSE IF Len(s) < r THEN <<>>
    ELSE LET with == combinations(Tail(s), r - 1)
             without == combinations(Tail(s), r)
         IN [i \in 1..Len(with) |-> <<Head(s)>> \o with[i]] \o without

\* a faulty variant of append_if_new: the membership test of line 30 dropped
append_always(all, clause) == Append(all, clause)

\* lines 30-31: if clause not in all_possible_clauses: append
append_if_new(all, clause) ==
    IF clause \in Range(all) THEN all ELSE Append(all, clause)

\* lines 29-31: the loop over the clauses of one sign pattern
RECURSIVE add_clauses(_, _)
add_clauses(all, found) ==
    IF found = <<>> THEN all
    ELSE add_clauses(append_if_new(all, Head(found)), Tail(found))

\* lines 21-31: one iteration of the loop over positive_or_negative
build_iteration(all, i, k, n) ==
    add_clauses(all, combinations(literals_of(product_element(i, n)), k))

\* len(bin(x)[2:]): the number of binary digits of x
RECURSIVE bit_length(_)
bit_length(x) == IF x < 2 THEN 1 ELSE 1 + bit_length(x \div 2)

\* lines 21-31: the loop over the sign patterns lo .. hi-1 of
\* positive_or_negative, in order, from the list `all`.  The range is split
\* in two and the first half is evaluated (its length taken) before the
\* second starts from it, so that TLC's lazy arguments do not nest.
RECURSIVE build_range(_, _, _, _, _)
build_range(all, lo, hi, k, n) ==
    IF hi <= lo THEN all
    ELSE IF hi = lo + 1 THEN build_iteration(all, lo, k, n)
    ELSE LET mid == (lo + hi) \div 2
             half == build_range(all, lo, mid, k, n)
         IN IF Len(half) >= 0 THEN build_range(half, mid, hi, k, n) ELSE half

\* all_possible_clauses(k, n)[0]: the whole catalogue
all_possible_clauses(k, n) == build_range(<<>>, 0, 2 ^ n, k, n)

\* int(s, 2) of a bit sequence
RECURSIVE int2(_)
int2(s) == IF s = <<>> THEN 0 ELSE 2 * int2(SubSeq(s, 1, Len(s) - 1)) + s[Len(s)]

(* --------------------- all_possible_clauses (build) ------------------- *)

SampleIdle == num_clauses = 0 /\ sat_instance = <<>> /\ drawn = 0
DecodeIdle ==
    /\ digest_in_binary = <<>>
    /\ new_clauses = <<>>
    /\ current_binary_substring = <<>>
    /\ bit_index = 0
    /\ location_of_clause = 0
SolveIdle ==
    /\ randomized = FALSE
    /\ assignment = <<>>
    /\ num_assignment_attempts = 0
    /\ num_clauses_satisfied = 0
ApproxIdle ==
    /\ solution_dict = <<>>
    /\ candidate_solution = <<>>
    /\ candidate_clause = <<>>
    /\ clause_index = 0
    /\ bitstring_index = 0
    /\ num_attempts = 0

InitBuild ==
    /\ op = "all_possible_clauses"
    /\ pc = "loop"
    /\ num_variables_per_instance \in MinK..BuildMaxN
    /\ num_variables_per_clause \in MinK..num_variables_per_instance
    /\ catalogue = <<>>
    /\ num_bits_required = 0
    /\ combination_index = 0
    /\ SampleIdle
    /\ DecodeIdle
    /\ clauses = <<>>
    /\ SolveIdle
    /\ ApproxIdle

\* lines 21-31: the next sign pattern's clauses are added
BuildStep ==
    /\ op = "all_possible_clauses" /\ pc = "loop"
    /\ combination_index < 2 ^ num_variables_per_instance
    /\ catalogue' = build_iteration(catalogue, combination_index,
                        num_variables_per_clause, num_variables_per_instance)
    /\ combination_index' = combination_index + 1
    /\ UNCHANGED <<op, pc, argVars, num_bits_required, sampleVars, decodeVars,
                   solveVars, approxVars>>

\* lines 32-33: the bit width is computed and the pair returned
BuildReturn ==
    /\ op = "all_possible_clauses" /\ pc = "loop"
    /\ combination_index = 2 ^ num_variables_per_instance
    /\ num_bits_required' = bit_length(Len(catalogue))
    /\ pc' = "done"
    /\ UNCHANGED <<op, argVars, catalogue, buildVars, sampleVars, decodeVars,
                   solveVars, approxVars>>

NextBuild == BuildStep \/ BuildReturn

SpecBuild == InitBuild /\ [][NextBuild]_vars

(* ----------------------------- random_sat ----------------------------- *)

\* random.randint(a, b): both ends included
randint_range(a, b) == a..b

InitSample ==
    \E n \in MinK..SampleMaxN : \E k \in MinK..n :
        /\ op = "random_sat"
        /\ pc = "loop"
        /\ num_variables_per_instance = n
        /\ num_variables_per_clause = k
        /\ catalogue = all_possible_clauses(k, n)
        /\ num_bits_required = bit_length(Len(catalogue))
        /\ combination_index = 0
        /\ num_clauses \in 0..MaxCount
        /\ sat_instance = <<>>
        /\ drawn = 0
        /\ DecodeIdle
        /\ clauses = <<>>
        /\ SolveIdle
        /\ ApproxIdle

\* lines 39-40: one draw; an index equal to len(all_possible_clauses) raises
\* IndexError
SampleDraw ==
    /\ op = "random_sat" /\ pc = "loop"
    /\ Len(sat_instance) < num_clauses
    /\ \E r \in randint_range(0, Len(catalogue)) :
        /\ drawn' = r
        /\ IF r < Len(catalogue)
           THEN sat_instance' = Append(sat_instance, catalogue[r + 1]) /\ pc' = pc
           ELSE sat_instance' = sat_instance /\ pc' = "IndexError"
    /\ UNCHANGED <<op, argVars, catalogue, num_bits_required, buildVars,
                   num_clauses, decodeVars,
                   solveVars, approxVars>>

\* line 41
SampleReturn ==
    /\ op = "random_sat" /\ pc = "loop"
    /\ Len(sat_instance) = num_clauses
    /\ pc' = "done"
    /\ UNCHANGED <<op, argVars, catalogue, num_bits_required, buildVars,
                   sampleVars, decodeVars,
                   solveVars, approxVars>>

NextSample == SampleDraw \/ SampleReturn

SpecSample == InitSample /\ [][NextSample]_vars

(* ---------------------- solution_to_sat (decode) ---------------------- *)

\* a faulty variant of out_of_range: an index equal to the catalogue's length is let
\* through
out_of_range_strict(location, length) == location > length

\* line 93: while location_of_clause >= len(all_possible_clauses)
out_of_range(location, length) == location >= length

\* a faulty variant of in_range: the test of line 99 dropped
in_range_always(location, length) == TRUE

\* line 99: if location_of_clause < len(all_possible_clauses)
in_range(location, length) == location < length

\* line 89: the loop condition
decode_continues ==
    bit_index < Len(digest_in_binary) /\ Len(new_clauses) <= Len(catalogue)

InitDecode ==
    \E n \in 1..DecodeMaxN : \E k \in 1..n :
        /\ op = "solution_to_sat"
        /\ pc = "loop"
        /\ num_variables_per_instance = n
        /\ num_variables_per_clause = k
        /\ catalogue = all_possible_clauses(k, n)
        /\ num_bits_required = bit_length(Len(catalogue))
        /\ combination_index = 0
        /\ SampleIdle
        /\ digest_in_binary \in [1..DigestLen -> {0, 1}]
        /\ new_clauses = <<>>
        /\ current_binary_substring = <<>>
        /\ bit_index = 0
        /\ location_of_clause = 0
        /\ clauses = <<>>
        /\ SolveIdle
        /\ ApproxIdle

\* lines 89-92: the next bit joins the window; a full window is evaluated
DecodeRead ==
    /\ op = "solution_to_sat" /\ pc = "loop"
    /\ decode_continues
    /\ LET window == Append(current_binary_substring,
                            digest_in_binary[bit_index + 1])
       IN /\ current_binary_substring' = window
          /\ IF Len(window) = num_bits_required
             THEN /\ location_of_clause' = int2(window)
                  /\ bit_index' = bit_index
                  /\ pc' = "slide"
             ELSE /\ location_of_clause' = location_of_clause
                  /\ bit_index' = bit_index + 1     \* line 102
                  /\ pc' = pc
    /\ UNCHANGED <<op, argVars, catalogue, num_bits_required, buildVars,
                   sampleVars, digest_in_binary, new_clauses,
                   solveVars, approxVars>>

\* lines 93-98: the test of the inner loop and one slide by one bit
DecodeSlide ==
    /\ op = "solution_to_sat" /\ pc = "slide"
    /\ IF out_of_range(location_of_clause, Len(catalogue))
       THEN /\ bit_index' = bit_index + 1
            /\ IF bit_index + 1 = Len(digest_in_binary)
               THEN /\ pc' = "emit"                  \* break
                    /\ UNCHANGED <<current_binary_substring, location_of_clause>>
               ELSE /\ current_binary_substring' =
                         Append(Tail(current_binary_substring),
                                digest_in_binary[bit_index + 2])
                    /\ location_of_clause' = int2(current_binary_substring')
                    /\ pc' = pc
       ELSE /\ pc' = "emit"
            /\ UNCHANGED <<bit_index, current_binary_substring,
                           location_of_clause>>
    /\ UNCHANGED <<op, argVars, catalogue, num_bits_required, buildVars,
                   sampleVars, digest_in_binary, new_clauses,
                   solveVars, approxVars>>

\* lines 99-102: the clause is appended, the window reset, the scan advanced;
\* indexing the list at or past its length raises IndexError
DecodeEmit ==
    /\ op = "solution_to_sat" /\ pc = "emit"
    /\ IF in_range(location_of_clause, Len(catalogue))
       THEN IF location_of_clause < Len(catalogue)
            THEN /\ new_clauses' =
                      Append(new_clauses, catalogue[location_of_clause + 1])
                 /\ current_binary_substring' = <<>>
                 /\ bit_index' = bit_index + 1
                 /\ pc' = "loop"
            ELSE /\ pc' = "IndexError"
                 /\ UNCHANGED <<new_clauses, current_binary_substring, bit_index>>
       ELSE /\ new_clauses' = new_clauses
            /\ current_binary_substring' = <<>>
            /\ bit_index' = bit_index + 1
            /\ pc' = "loop"
    /\ UNCHANGED <<op, argVars, catalogue, num_bits_required, buildVars,
                   sampleVars, digest_in_binary, location_of_clause,
                   solveVars, approxVars>>

\* line 103
DecodeReturn ==
    /\ op = "solution_to_sat" /\ pc = "loop"
    /\ ~decode_continues
    /\ pc' = "done"
    /\ UNCHANGED <<op, argVars, catalogue, num_bits_required, buildVars,
                   sampleVars, decodeVars,
                   solveVars, approxVars>>

NextDecode == DecodeRead \/ DecodeSlide \/ DecodeEmit \/ DecodeReturn

SpecDecode == InitDecode /\ [][NextDecode]_vars

(* --------------------------- max_sat_solver --------------------------- *)

\* the instances of 1..MaxClauses clauses, each an element of the list cat
instances_over(cat) ==
    UNION { [1..m -> Range(cat)] : m \in 1..MaxClauses }

\* lines 65-72: whether the literal is true under the bit tuple
literal_true(literal, bits) ==
    IF literal > 0 THEN bits[literal] = 1 ELSE bits[-literal] = 0

\* a faulty variant of clause_score: only the first literal of a clause is looked at
clause_score_first_literal(clause, bits, i) ==
    IF literal_true(clause[1], bits) THEN 1 ELSE 0

\* lines 64-72: the loop over the literals of one clause from literal i on;
\* the first true literal counts the clause and breaks
RECURSIVE clause_score(_, _, _)
clause_score(clause, bits, i) ==
    IF i > Len(clause) THEN 0
    ELSE IF literal_true(clause[i], bits) THEN 1
    ELSE clause_score(clause, bits, i + 1)

\* lines 62-72: num_clauses_satisfied after the loop over the clauses
RECURSIVE count_satisfied(_, _)
count_satisfied(instance, bits) ==
    IF instance = <<>> THEN 0
    ELSE clause_score(Head(instance), bits, 1)
         + count_satisfied(Tail(instance), bits)

\* a faulty variant of meets_threshold: the `1 -` of the threshold lost
meets_threshold_complement(satisfied, total, k) ==
    satisfied * (2 ^ k) >= total

\* lines 74, 69, 95:
\* num_clauses_satisfied / len(clauses) >= 1 - 1 / 2**num_variables_per_clause.
\* 1 - 1/2**k is exact in binary floating point and the quotient is rounded
\* to nearest, so the comparison agrees with the exact one at these sizes
meets_threshold(satisfied, total, k) ==
    satisfied * (2 ^ k) >= total * (2 ^ k - 1)

\* lines 49-57: the assignments variable_assignment may return
variable_assignment_choices ==
    IF randomized
    THEN [1..num_variables_per_instance -> {0, 1}]
    ELSE {product_element(num_assignment_attempts, num_variables_per_instance)}

InitSolve ==
    \E n \in 1..SolveMaxN : \E k \in 1..n :
        /\ op = "max_sat_solver"
        /\ pc = "loop"
        /\ num_variables_per_instance = n
        /\ num_variables_per_clause = k
        /\ catalogue = <<>>
        /\ num_bits_required = 0
        /\ combination_index = 0
        /\ SampleIdle
        /\ DecodeIdle
        /\ clauses \in instances_over(all_possible_clauses(k, n))
        /\ randomized \in BOOLEAN
        /\ assignment = <<>>
        /\ num_assignment_attempts = 0
        /\ num_clauses_satisfied = 0
        /\ ApproxIdle

\* lines 60-76: one pass of the while loop; product[num_assignment_attempts]
\* past the end of the list raises IndexError
SolveAttempt ==
    /\ op = "max_sat_solver" /\ pc = "loop"
    /\ randomized => num_assignment_attempts < MaxAttempts
    /\ IF ~randomized
          /\ num_assignment_attempts >= 2 ^ num_variables_per_instance
       THEN /\ pc' = "IndexError"
            /\ UNCHANGED <<assignment, num_assignment_attempts,
                           num_clauses_satisfied>>
       ELSE \E bits \in variable_assignment_choices :
            /\ assignment' = bits
            /\ num_clauses_satisfied' = count_satisfied(clauses, bits)
            /\ num_assignment_attempts' = num_assignment_attempts + 1
            /\ pc' = IF meets_threshold(num_clauses_satisfied', Len(clauses),
                                        num_variables_per_clause)
                     THEN "done" ELSE "loop"
    /\ UNCHANGED <<op, argVars, catalogue, num_bits_required, buildVars,
                   sampleVars, decodeVars, clauses, randomized, approxVars>>

(* ------------- ThreeSAT: the approximate solvers over tuples ---------- *)

\* dictionary_to_sat lines 117-120: -n, ..., -1, 1, ..., n
all_variables(n) == [i \in 1..(2 * n) |-> IF i <= n THEN i - n - 1 ELSE i - n]

\* itertools.combinations_with_replacement(s, r)
RECURSIVE combinations_with_replacement(_, _)
combinations_with_replacement(s, r) ==
    IF r = 0 THEN << <<>> >>
    ELSE IF s = <<>> THEN <<>>
    ELSE LET with == combinations_with_replacement(s, r - 1)
             without == combinations_with_replacement(Tail(s), r)
         IN [i \in 1..Len(with) |-> <<Head(s)>> \o with[i]] \o without

\* dictionary_to_sat line 121: the clauses its instances are drawn from
dictionary_clauses(k, n) == combinations_with_replacement(all_variables(n), k)

\* lines 63-68 and 89-94: the number of value tuples that hold a 1
RECURSIVE count_ones(_)
count_ones(solution) ==
    IF solution = <<>> THEN 0
    ELSE (IF \E i \in 1..Len(Head(solution)) : Head(solution)[i] = 1
          THEN 1 ELSE 0)
         + count_ones(Tail(solution))

\* brute_force_approximate_sat lines 83-86: the value of a literal
bitstring_value(variable, bitstring) ==
    IF variable > 0 THEN bitstring[variable]
    ELSE (bitstring[-variable] + 1) % 2

\* brute_force_approximate_sat lines 79-88: candidate_solution
bitstring_solution(instance, bitstring) ==
    [c \in 1..Len(instance) |->
        [l \in 1..Len(instance[c]) |-> bitstring_value(instance[c][l], bitstring)]]

\* a faulty variant of lookup_value: a negated entry is reused without complementing
lookup_value_no_negation(variable, dict, fresh) ==
    IF variable \in DOMAIN dict THEN dict[variable]
    ELSE IF -variable \in DOMAIN dict THEN dict[-variable]
    ELSE fresh

\* randomized_approximate_sat lines 54-59: the value of the next literal,
\* `fresh` being the random draw of line 59
lookup_value(variable, dict, fresh) ==
    IF variable \in DOMAIN dict THEN dict[variable]
    ELSE IF -variable \in DOMAIN dict THEN (dict[-variable] + 1) % 2
    ELSE fresh

\* randomized_approximate_sat lines 54-60: the mapping after the literal; only
\* a literal found under neither sign is entered
store_value(variable, dict, value) ==
    IF variable \in DOMAIN dict \/ -variable \in DOMAIN dict THEN dict
    ELSE [l \in DOMAIN dict \cup {variable} |->
             IF l = variable THEN value ELSE dict[l]]

\* the arguments of a call of one of ThreeSAT's solvers
InitApproxWith(name, k, n, instances) ==
    /\ op = name
    /\ pc = "loop"
    /\ num_variables_per_instance = n
    /\ num_variables_per_clause = k
    /\ catalogue = <<>>
    /\ num_bits_required = 0
    /\ combination_index = 0
    /\ SampleIdle
    /\ DecodeIdle
    /\ clauses \in instances
    /\ SolveIdle
    /\ ApproxIdle

\* the solvers are called with instances decoded by dictionary_to_sat;
\* brute_force_approximate_sat also with instances over the built catalogue
InitApprox ==
    \/ \E name \in {"randomized_approximate_sat", "brute_force_approximate_sat"},
          n \in 1..ApproxMaxN :
          InitApproxWith(name, MinK, n,
                         instances_over(dictionary_clauses(MinK, n)))
    \/ \E n \in MinK..SolveMaxN : \E k \in MinK..n :
          InitApproxWith("brute_force_approximate_sat", k, n,
                         instances_over(all_possible_clauses(k, n)))

\* brute_force_approximate_sat lines 78-102: one bitstring of the product is
\* scored; the loop running out returns False
BruteForceStep ==
    /\ op = "brute_force_approximate_sat" /\ pc = "loop"
    /\ IF bitstring_index = 2 ^ num_variables_per_instance
       THEN /\ pc' = "False"
            /\ UNCHANGED approxVars
       ELSE LET bitstring == product_element(bitstring_index,
                                             num_variables_per_instance)
                solution == bitstring_solution(clauses, bitstring)
            IN /\ candidate_solution' = solution
               /\ IF meets_threshold(count_ones(solution), Len(clauses),
                                     Len(clauses[1]))
                  THEN /\ solution_dict' = bitstring       \* lines 96-100
                       /\ pc' = "done"
                       /\ UNCHANGED bitstring_index
                  ELSE /\ bitstring_index' = bitstring_index + 1
                       /\ UNCHANGED <<solution_dict, pc>>
               /\ UNCHANGED <<candidate_clause, clause_index, num_attempts>>
    /\ UNCHANGED <<op, argVars, catalogue, num_bits_required, buildVars,
                   sampleVars, decodeVars, solveVars>>

\* randomized_approximate_sat lines 47-50: a pass begins
ApproxBeginPass ==
    /\ op = "randomized_approximate_sat" /\ pc = "loop"
    /\ num_attempts < MaxAttempts
    /\ num_attempts' = num_attempts + 1
    /\ solution_dict' = <<>>
    /\ candidate_solution' = <<>>
    /\ candidate_clause' = <<>>
    /\ clause_index' = 1
    /\ pc' = "scan"
    /\ UNCHANGED <<op, argVars, catalogue, num_bits_required, buildVars,
                   sampleVars, decodeVars, solveVars, bitstring_index>>

\* randomized_approximate_sat lines 51-62: the next literal of the scan
ApproxLiteral ==
    /\ op = "randomized_approximate_sat" /\ pc = "scan"
    /\ clause_index <= Len(clauses)
    /\ LET clause == clauses[clause_index]
           variable == clause[Len(candidate_clause) + 1]
       IN \E fresh \in randint_range(0, 1) :
            LET value == lookup_value(variable, solution_dict, fresh)
                values == Append(candidate_clause, value)
            IN /\ solution_dict' = store_value(variable, solution_dict, value)
               /\ IF Len(values) = Len(clause)
                  THEN /\ candidate_solution' = Append(candidate_solution, values)
                       /\ candidate_clause' = <<>>
                       /\ clause_index' = clause_index + 1
                  ELSE /\ candidate_clause' = values
                       /\ UNCHANGED <<candidate_solution, clause_index>>
    /\ UNCHANGED <<op, pc, argVars, catalogue, num_bits_required, buildVars,
                   sampleVars, decodeVars, solveVars, bitstring_index,
                   num_attempts>>

\* randomized_approximate_sat lines 63-71: the pass is scored
ApproxScore ==
    /\ op = "randomized_approximate_sat" /\ pc = "scan"
    /\ clause_index > Len(clauses)
    /\ pc' = IF meets_threshold(count_ones(candidate_solution), Len(clauses),
                                Len(clauses[1]))
             THEN "done" ELSE "loop"
    /\ UNCHANGED <<op, argVars, catalogue, num_bits_required, buildVars,
                   sampleVars, decodeVars, solveVars, approxVars>>

InitSolvers == InitSolve \/ InitApprox

NextSolvers ==
    \/ SolveAttempt
    \/ BruteForceStep
    \/ ApproxBeginPass
    \/ ApproxLiteral
    \/ ApproxScore

SpecSolvers == InitSolvers /\ [][NextSolvers]_vars

(* ------------------------------ program ------------------------------- *)

Init == InitBuild \/ InitSample \/ InitDecode \/ InitSolvers

Next == NextBuild \/ NextSample \/ NextDecode \/ NextSolvers

Spec == Init /\ [][Next]_vars

(* ============================== claims ================================ *)

BuildDone == op = "all_possible_clauses" /\ pc = "done"
DecodeRunning == op = "solution_to_sat"
DecodeDone == op = "solution_to_sat" /\ pc = "done"

\* the elements of a finite set of integers, ascending
RECURSIVE ascending(_)
ascending(S) ==
    IF S = {} THEN <<>>
    ELSE LET m == CHOOSE x \in S : \A y \in S : x <= y
         IN <<m>> \o ascending(S \ {m})

\* the k-tuples of literals whose variables are strictly increasing in 1..n,
\* each with either sign
canonical_clauses(k, n) ==
    UNION { { [i \in 1..k |-> sign[ascending(S)[i]] * ascending(S)[i]] :
                sign \in [S -> {-1, 1}] } :
            S \in {T \in SUBSET (1..n) : Cardinality(T) = k} }

RECURSIVE factorial(_)
factorial(x) == IF x = 0 THEN 1 ELSE x * factorial(x - 1)

binomial(n, k) == factorial(n) \div (factorial(k) * factorial(n - k))

no_duplicates(s) == \A i, j \in 1..Len(s) : i < j => s[i] # s[j]

\* C1: every clause of the instance the decoder has built is an element of the
\* catalogue, at every step of the scan; the catalogue is never indexed at or
\* past its length; and when the stream runs out while sliding, with the
\* window still out of range, nothing is appended.
C1_DecodeValidity ==
    DecodeRunning =>
        /\ \A i \in 1..Len(new_clauses) : new_clauses[i] \in Range(catalogue)
        /\ pc # "IndexError"

\* the step after the stream ran out in the middle of sliding: nothing was
\* appended for the out-of-range window, and earlier clauses stand
C1_Witness ==
    /\ DecodeRunning /\ pc = "loop"
    /\ bit_index = Len(digest_in_binary) + 1
    /\ location_of_clause >= Len(catalogue)
    /\ Len(new_clauses) >= 1

\* C4: the instance the decoder returns never holds more than len(catalogue)
\* clauses.
C4_DecodeAtMostCatalogue ==
    DecodeRunning => Len(new_clauses) <= Len(catalogue)

\* C5: every index random_sat draws lies in 0..len(catalogue)-1, and it returns
\* exactly num_clauses clauses, each an element of the catalogue.
C5_SampleInCatalogue ==
    op = "random_sat" =>
        /\ drawn \in 0..(Len(catalogue) - 1)
        /\ pc # "IndexError"
        /\ pc = "done" =>
            /\ Len(sat_instance) = num_clauses
            /\ \A i \in 1..Len(sat_instance) : sat_instance[i] \in Range(catalogue)

\* C6: the bit width returned by all_possible_clauses is the least b with
\* 2^b >= len(catalogue): 2^b >= len(catalogue) and 2^(b-1) < len(catalogue).
C6_MinimalBitWidth ==
    BuildDone =>
        /\ 2 ^ num_bits_required >= Len(catalogue)
        /\ 2 ^ (num_bits_required - 1) < Len(catalogue)

\* C7: the catalogue never holds a clause twice, and the catalogue returned is
\* exactly the set of k-tuples of literals with strictly increasing variables
\* in 1..n, each with either sign; its size is C(n,k) * 2^k (8 for k=3, n=3 and
\* 32 for k=3, n=4).
C7_CatalogueExact ==
    op = "all_possible_clauses" =>
        /\ no_duplicates(catalogue)
        /\ pc = "done" =>
            /\ Range(catalogue) = canonical_clauses(num_variables_per_clause,
                                                    num_variables_per_instance)
            /\ Len(catalogue) =
                 binomial(num_variables_per_instance, num_variables_per_clause)
                 * 2 ^ num_variables_per_clause
            /\ (num_variables_per_clause = 3 /\ num_variables_per_instance = 3)
                 => Len(catalogue) = 8
            /\ (num_variables_per_clause = 3 /\ num_variables_per_instance = 4)
                 => Len(catalogue) = 32

\* the catalogue of k=3, n=4 returned, after sign patterns that only repeated
\* clauses already present
C7_Witness ==
    /\ BuildDone
    /\ num_variables_per_clause = 3 /\ num_variables_per_instance = 4
    /\ Len(catalogue) = 32

\* the value of the window of num_bits_required bits that starts at bit s
\* (counted from 0)
window_value(s) == int2(SubSeq(digest_in_binary, s + 1, s + num_bits_required))

\* the starts of the windows a greedy leftmost scan emits from bit `from` on
RECURSIVE greedy_starts(_)
greedy_starts(from) ==
    LET candidates ==
            {s \in from..(Len(digest_in_binary) - num_bits_required) :
                window_value(s) < Len(catalogue)}
    IN IF candidates = {} THEN <<>>
       ELSE LET t == CHOOSE x \in candidates : \A y \in candidates : x <= y
            IN <<t>> \o greedy_starts(t + num_bits_required)

\* C10: the decoder is a greedy leftmost rejection scan.  While it fills the
\* window, the window is the digest bits from its start up to the scan
\* position; while it tests or slides, the window is exactly the
\* num_bits_required digest bits ending at the scan position, with
\* location_of_clause its value; and the instance returned is
\* catalogue[value] over the leftmost in-range windows, each starting at or
\* after the end of the one before (the first at or after bit 0), all of them
\* unless the instance outgrew the catalogue.
C10_GreedyLeftmostScan ==
    DecodeRunning =>
        /\ pc = "loop" /\ bit_index < Len(digest_in_binary) =>
            /\ Len(current_binary_substring) < num_bits_required
            /\ current_binary_substring =
                 SubSeq(digest_in_binary,
                        bit_index - Len(current_binary_substring) + 1, bit_index)
        /\ pc = "slide" =>
            /\ current_binary_substring =
                 SubSeq(digest_in_binary,
                        bit_index - num_bits_required + 2, bit_index + 1)
            /\ location_of_clause = int2(current_binary_substring)
        /\ pc = "done" =>
            LET starts == greedy_starts(0)
            IN /\ Len(new_clauses) <= Len(starts)
               /\ \A i \in 1..Len(new_clauses) :
                     new_clauses[i] = catalogue[window_value(starts[i]) + 1]
               /\ Len(new_clauses) <= Len(catalogue)
                     => Len(new_clauses) = Len(starts)

\* an instance of two clauses returned, the second found only after sliding
C10_Witness ==
    /\ DecodeDone
    /\ Len(new_clauses) = 2
    /\ greedy_starts(0)[2] > greedy_starts(0)[1] + num_bits_required

(* ------------------------- claims on the solvers ---------------------- *)

Exhaustive ==
    \/ op = "max_sat_solver" /\ ~randomized
    \/ op = "brute_force_approximate_sat"

Solving ==
    op \in {"max_sat_solver", "brute_force_approximate_sat",
            "randomized_approximate_sat"}

\* the number of assignments the exhaustive strategy has gone past
attempts_made ==
    IF op = "max_sat_solver" THEN num_assignment_attempts
    ELSE IF pc = "done" THEN bitstring_index + 1 ELSE bitstring_index

\* the boolean value the returned solution gives variable v
returned_value(v) ==
    IF op = "max_sat_solver" THEN assignment[v]
    ELSE IF v \in DOMAIN solution_dict THEN solution_dict[v]
    ELSE 1 - solution_dict[-v]

\* a clause is satisfied when at least one literal is true
satisfied_under(clause, value(_)) ==
    \E i \in 1..Len(clause) :
        IF clause[i] > 0 THEN value(clause[i]) = 1 ELSE value(-clause[i]) = 0

\* satisfied * 2^k >= len(instance) * (2^k - 1), k the width of the clauses
ratio_reached(value(_)) ==
    LET k == Len(clauses[1])
        satisfied ==
            Cardinality({c \in 1..Len(clauses) : satisfied_under(clauses[c], value)})
    IN satisfied * (2 ^ k) >= Len(clauses) * (2 ^ k - 1)

\* the assignment at position j (from 0) of the ascending binary counter over
\* n bits, variable 1 the most significant
counter_assignment(j) ==
    CHOOSE bits \in [1..num_variables_per_instance -> {0, 1}] : int2(bits) = j

assignment_reaches(bits) == LET value(v) == bits[v] IN ratio_reached(value)

\* C2: when a solver has terminated with an assignment, the clauses of the
\* instance satisfied by it, times 2^k, are at least len(instance) * (2^k - 1).
C2_ThresholdReached ==
    (Solving /\ pc = "done") => ratio_reached(returned_value)

\* the randomized strategy terminated at its second attempt with an
\* assignment that leaves a clause unsatisfied
C2_Witness ==
    /\ op = "max_sat_solver" /\ randomized /\ pc = "done"
    /\ num_assignment_attempts = 2
    /\ \E c \in 1..Len(clauses) :
          ~satisfied_under(clauses[c], returned_value)

\* C3: the exhaustive strategy has gone through the assignments of the
\* ascending binary counter in order: none of those before the current
\* position meets the threshold, and the assignment returned is the one at
\* position attempts - 1, which meets it.
C3_FirstInCounterOrder ==
    (Exhaustive /\ pc \in {"loop", "done"}) =>
        /\ \A j \in 0..(attempts_made - 1) :
              (pc = "done" /\ j = attempts_made - 1)
              \/ ~assignment_reaches(counter_assignment(j))
        /\ pc = "done" =>
              /\ int2(IF op = "max_sat_solver" THEN assignment
                      ELSE solution_dict) = attempts_made - 1
              /\ ratio_reached(returned_value)

\* max_sat_solver(randomized=False) returned the third assignment of the
\* counter after two that miss the threshold
C3_Witness ==
    /\ op = "max_sat_solver" /\ ~randomized /\ pc = "done"
    /\ num_assignment_attempts = 3

\* the instance is drawn from the catalogue of valid parameters: k >= 3,
\* n >= k, every clause k literals of strictly increasing variables in 1..n
ValidInstance ==
    /\ num_variables_per_clause >= MinK
    /\ num_variables_per_instance >= num_variables_per_clause
    /\ \A c \in 1..Len(clauses) :
          /\ Len(clauses[c]) = num_variables_per_clause
          /\ \A i \in 1..Len(clauses[c]) :
                Abs(clauses[c][i]) \in 1..num_variables_per_instance
          /\ \A i, j \in 1..Len(clauses[c]) :
                i < j => Abs(clauses[c][i]) < Abs(clauses[c][j])

evaluated_occurrences ==
    { <<clauses[c][l], candidate_solution[c][l]>> :
        c \in 1..Len(candidate_solution), l \in 1..Len(clauses[1]) }
    \cup
    { <<clauses[clause_index][l], candidate_clause[l]>> :
        l \in 1..Len(candidate_clause) }

\* C9: in a pass of randomized_approximate_sat the mapping never holds both a
\* literal and its negation, and the values given to the literal occurrences
\* evaluated so far are those of one boolean value per variable.
C9_ConsistentPass ==
    (op = "randomized_approximate_sat" /\ pc \in {"scan", "done"}) =>
        /\ \A l \in DOMAIN solution_dict : -l \notin DOMAIN solution_dict
        /\ \E bits \in [1..num_variables_per_instance -> {0, 1}] :
              \A o \in evaluated_occurrences :
                 o[2] = IF o[1] > 0 THEN bits[o[1]] ELSE 1 - bits[-o[1]]

\* a literal and its negation have both been evaluated in the current clause
C9_Witness ==
    /\ op = "randomized_approximate_sat" /\ pc = "scan"
    /\ \E i, j \in 1..Len(candidate_clause) :
          clauses[clause_index][i] = -clauses[clause_index][j]

====
